---- MODULE Spec2Model ----
(***************************************************************************)
(* smart-store2: the warehouse loader (src/analytics_project/etl_to_dw.py) *)
(* and the cube builder (project_7/create_cube_p7.py).                     *)
(*                                                                         *)
(* Spec     : runs of load_data_to_db against the SQLite warehouse file.   *)
(* CubeSpec : one execution of the cubing script over its three CSVs.      *)
(***************************************************************************)
EXTENDS Integers, Sequences, FiniteSets, TLC

VARIABLES
    db,            \* the warehouse file at DB_PATH: what is committed on disk
    conn,          \* the local `conn` of load_data_to_db: "none" | "open" | "closed"
    pc,            \* position of load_data_to_db
    err,           \* the exception load_data_to_db is propagating ("none" if none)
    committed,     \* line 170-171 was passed: the run reported success
    files,         \* contents of the three prepared CSVs as read by this run
    customers_df,  \* local of load_data_to_db
    products_df,   \* local of load_data_to_db
    sales_df,      \* local of load_data_to_db
    prev,          \* history: the previous run (files, final db, err) when this run re-reads the same files
    oldCustomer,   \* history: the customer rows the store held when this run started (until the CSVs are read)
    stale,         \* history: the store held a customer row at the start that this run's customers CSV lacks
    cpc,           \* position of the cubing script
    sales,         \* create_cube_p7.py: DataFrame `sales`
    customers,     \* create_cube_p7.py: DataFrame `customers`
    products,      \* create_cube_p7.py: DataFrame `products`
    cube_df,       \* create_cube_p7.py: DataFrame `cube_df` (the Fact rows)
    cube,          \* create_cube_p7.py: DataFrame `cube` (the CubeRows)
    today,         \* create_cube_p7.py: `today` = pd.Timestamp.now(), as <<year, month, day, hour>>
    p7_cube,       \* the file data_p7/p7_cube.csv
    headers,       \* the three cube-prep CSVs on disk: present or not, and their header columns
    cerr           \* the exception that ended the cubing script, if any

loaderVars == <<db, conn, pc, err, committed, files, customers_df, products_df,
                sales_df, prev, oldCustomer, stale>>
cubeVars == <<cpc, sales, customers, products, cube_df, cube, today, p7_cube, headers, cerr>>
vars == <<loaderVars, cubeVars>>

(***************************************************************************)
(* Bounds and value domains                                                *)
(***************************************************************************)
\* longest batch (rows of one prepared CSV) explored
MaxRows == 2

Range(s) == {s[i] : i \in 1..Len(s)}
SeqsUpTo(S, n) == UNION {[1..k -> S] : k \in 0..n}

\* a prepared CSV: absent from disk, or present with its rows
Missing == [present |-> FALSE, rows |-> <<>>]
File(rows) == [present |-> TRUE, rows |-> rows]
\* a DataFrame local: never assigned, or the rows read
NotRead == [assigned |-> FALSE, rows |-> <<>>]
DataFrame(rows) == [assigned |-> TRUE, rows |-> rows]
\* `files` before this run has read anything
NoFiles == [read |-> FALSE, customers |-> Missing, products |-> Missing, sales |-> Missing]

\* rows of the prepared CSVs: two rows that share a key and differ elsewhere, and one other key
CustomerRows == {[customer_id |-> 1, name |-> "a"], [customer_id |-> 1, name |-> "b"],
                 [customer_id |-> 2, name |-> "a"]}
ProductRows == {[product_id |-> 1, product_name |-> "a"], [product_id |-> 1, product_name |-> "b"],
                [product_id |-> 2, product_name |-> "a"]}
SaleRows == {[sales_id |-> 1, customer_id |-> 1, product_id |-> 1],
             [sales_id |-> 1, customer_id |-> 2, product_id |-> 1],
             [sales_id |-> 2, customer_id |-> 1, product_id |-> 1]}

CustomerFiles == {File(r) : r \in SeqsUpTo(CustomerRows, MaxRows)} \cup {Missing}
ProductFiles == {File(r) : r \in SeqsUpTo(ProductRows, MaxRows)} \cup {Missing}
SaleFiles == {File(r) : r \in SeqsUpTo(SaleRows, MaxRows)} \cup {Missing}

(***************************************************************************)
(* pandas / sqlite3 operations used by etl_to_dw.py                        *)
(***************************************************************************)
\* DataFrame.duplicated(subset=[key], keep=False): the rows whose key occurs more than once
duplicated(df, key) ==
    SelectSeq(df, LAMBDA r : Cardinality({i \in 1..Len(df) : df[i][key] = r[key]}) > 1)

RECURSIVE drop_duplicates_last(_, _)
drop_duplicates_last(df, key) ==
    IF df = <<>> THEN <<>>
    ELSE LET r == Head(df)
             rest == Tail(df)
         IN  IF \E i \in 1..Len(rest) : rest[i][key] = r[key]
             THEN drop_duplicates_last(rest, key)
             ELSE <<r>> \o drop_duplicates_last(rest, key)

\* DataFrame.drop_duplicates(subset=[key], keep='first'): row i stays iff no earlier row has its key
RECURSIVE drop_duplicates(_, _)
drop_duplicates(df, key) ==
    IF df = <<>> THEN <<>>
    ELSE LET n == Len(df)
             r == df[n]
             front == SubSeq(df, 1, n - 1)
         IN  IF \E i \in 1..(n - 1) : df[i][key] = r[key]
             THEN drop_duplicates(front, key)
             ELSE Append(drop_duplicates(front, key), r)

\* the `if len(duplicates) > 0:` block of insert_customers / insert_sales
Deduplicated(df, key) ==
    IF Len(duplicated(df, key)) > 0 THEN drop_duplicates(df, key) ELSE df

\* the batch insert_products hands to to_sql: the DataFrame as read
ProductsDeduplicated(df) == Deduplicated(df, "product_id")
ProductsToInsert(df) == df

\* a table declared without a key takes every row
NoPrimaryKey(table, df, key) == TRUE

\* INTEGER PRIMARY KEY: the INSERTs of one to_sql succeed iff no key repeats within the
\* batch and none is already in the table
PrimaryKeyOk(table, df, key) ==
    /\ \A i, j \in 1..Len(df) : df[i][key] = df[j][key] => i = j
    /\ \A i \in 1..Len(df) : \A t \in table : t[key] # df[i][key]

\* no previous run is being repeated
NoPrev == [kept |-> FALSE, files |-> NoFiles, db |-> [exists |-> FALSE, schema |-> FALSE, customer |-> {}, product |-> {}, sale |-> {}], err |-> "none"]

NoDb == [exists |-> FALSE, schema |-> FALSE, customer |-> {}, product |-> {}, sale |-> {}]

KeepFile(d) == d
\* DB_PATH.unlink() when DB_PATH.exists()
Unlink(d) == IF d.exists THEN NoDb ELSE d

\* CREATE TABLE IF NOT EXISTS x3; DDL is not held back by a transaction
create_schema(d) == [d EXCEPT !.exists = TRUE, !.schema = TRUE]

(***************************************************************************)
(* load_data_to_db                                                         *)
(***************************************************************************)
LoaderInit ==
    /\ db = NoDb
    /\ conn = "none"
    /\ pc = "idle"
    /\ err = "none"
    /\ committed = FALSE
    /\ files = NoFiles
    /\ customers_df = NotRead
    /\ products_df = NotRead
    /\ sales_df = NotRead
    /\ prev = NoPrev
    /\ oldCustomer = {}
    /\ stale = FALSE

\* an exception that is logged and passed over: the run goes on to the schema
RaiseAndGoOn(e) ==
    /\ err' = e
    /\ pc' = "schema"

\* where an exception raised inside the try block goes
Raise(e) ==
    /\ err' = e
    /\ pc' = "finally"

\* lines 135-147: mkdir, unlink the old warehouse, conn = None.
\* keep: the prepared CSVs stay as the previous run read them (a re-run on identical inputs)
StartLoad(keep) ==
    /\ pc \in {"idle", "done"}
    /\ keep => pc = "done" /\ files.read /\ err # "OperationalError"
    /\ db' = Unlink(db)
    /\ conn' = "none"
    /\ pc' = "connect"
    /\ err' = "none"
    /\ committed' = FALSE
    /\ files' = NoFiles
    /\ customers_df' = NotRead
    /\ products_df' = NotRead
    /\ sales_df' = NotRead
    /\ prev' = IF keep THEN [kept |-> TRUE, files |-> files, db |-> db, err |-> err] ELSE NoPrev
    /\ oldCustomer' = db.customer
    /\ stale' = FALSE

\* lines 151-152: sqlite3.connect creates the file; it may raise (unwritable location)
Connect ==
    /\ pc = "connect"
    /\ \/ /\ conn' = "open"
          /\ db' = [db EXCEPT !.exists = TRUE]
          /\ pc' = "schema"
          /\ UNCHANGED err
       \/ /\ Raise("OperationalError")
          /\ UNCHANGED <<conn, db>>
    /\ UNCHANGED <<committed, files, customers_df, products_df, sales_df, prev, oldCustomer, stale>>

\* line 155
CreateSchema ==
    /\ pc = "schema"
    /\ \/ /\ db' = create_schema(db)
          /\ pc' = "read"
          /\ UNCHANGED err
       \/ /\ Raise("OperationalError")
          /\ UNCHANGED db
    /\ UNCHANGED <<conn, committed, files, customers_df, products_df, sales_df, prev, oldCustomer, stale>>

\* the contents the three prepared CSVs can have when a run reads them; a file the run
\* never gets to (an earlier one is missing) is no input of it
PreparedFiles ==
    {[read |-> TRUE, customers |-> c, products |-> p, sales |-> s] :
        c \in CustomerFiles, p \in ProductFiles, s \in SaleFiles}

Readable(f) ==
    /\ ~f.customers.present => ~f.products.present
    /\ ~f.products.present => ~f.sales.present

\* lines 158-160: three pd.read_csv calls; the first missing file raises
ReadCsv ==
    /\ pc = "read"
    /\ \E f \in (IF prev.kept THEN {prev.files} ELSE PreparedFiles) :
        /\ Readable(f)
        /\ files' = f
        /\ oldCustomer' = {}
        /\ stale' = (f.customers.present /\ \E r \in oldCustomer : r \notin Range(f.customers.rows))
        /\ customers_df' = IF f.customers.present THEN DataFrame(f.customers.rows) ELSE NotRead
        /\ products_df' = IF f.products.present THEN DataFrame(f.products.rows) ELSE NotRead
        /\ sales_df' = IF f.sales.present THEN DataFrame(f.sales.rows) ELSE NotRead
        /\ IF f.sales.present
           THEN pc' = "insert_customers" /\ UNCHANGED err
           ELSE Raise("FileNotFoundError")
    /\ UNCHANGED <<db, conn, committed, prev>>

\* DataFrame.to_sql(name, con, if_exists="append"): one transaction that pandas commits
\* when every row went in and rolls back (then re-raises) when an INSERT fails
to_sql(name, df, key, next) ==
    \/ /\ PrimaryKeyOk(db[name], df, key)
       /\ db' = [db EXCEPT ![name] = @ \cup Range(df)]
       /\ pc' = next
       /\ UNCHANGED err
    \/ /\ ~PrimaryKeyOk(db[name], df, key)
       /\ Raise("IntegrityError")
       /\ UNCHANGED db
    \/ /\ Raise("OperationalError")
       /\ UNCHANGED db

\* line 164, insert_customers (lines 86-107)
InsertCustomers ==
    /\ pc = "insert_customers"
    /\ to_sql("customer", Deduplicated(customers_df.rows, "customer_id"), "customer_id", "insert_products")
    /\ UNCHANGED <<conn, committed, files, customers_df, products_df, sales_df, prev, oldCustomer, stale>>

\* line 166, insert_products (lines 110-113)
InsertProducts ==
    /\ pc = "insert_products"
    /\ to_sql("product", ProductsToInsert(products_df.rows), "product_id", "insert_sales")
    /\ UNCHANGED <<conn, committed, files, customers_df, products_df, sales_df, prev, oldCustomer, stale>>

\* line 168, insert_sales (lines 116-130)
InsertSales ==
    /\ pc = "insert_sales"
    /\ to_sql("sale", Deduplicated(sales_df.rows, "sales_id"), "sales_id", "commit")
    /\ UNCHANGED <<conn, committed, files, customers_df, products_df, sales_df, prev, oldCustomer, stale>>

\* lines 170-171: nothing is pending any more (each to_sql committed), so commit is a no-op
Commit ==
    /\ pc = "commit"
    /\ committed' = TRUE
    /\ pc' = "finally"
    /\ UNCHANGED <<db, conn, err, files, customers_df, products_df, sales_df, prev, oldCustomer, stale>>

CloseOnSuccessOnly(c, e) == IF c = "open" /\ e = "none" THEN "closed" ELSE c
\* lines 174-176: if conn is not None: conn.close()
CloseIfOpen(c, e) == IF c # "none" THEN "closed" ELSE c

\* lines 172-176, then the function returns or the exception leaves it
Finally ==
    /\ pc = "finally"
    /\ conn' = CloseIfOpen(conn, err)
    /\ pc' = "done"
    /\ UNCHANGED <<db, err, committed, files, customers_df, products_df, sales_df, prev, oldCustomer, stale>>

(***************************************************************************)
(* create_cube_p7.py: values and pandas operations                         *)
(***************************************************************************)
\* longest table (rows of one cube-prep CSV) explored
MaxCubeRows == 2

\* a missing value: NaN in a text column, NaT / NaN in a date or number column.
\* A date in a CSV is <<year, month, day>> as written (it may name no calendar day); a
\* nullable number n is <<n>>.
NaN == "NaN"
NaT == <<>>
\* pandas isna on the value of column col of row r (a label string is never missing)
IsNull(r, col) ==
    IF col \in {"category", "city"} THEN r[col] = NaN
    ELSE IF col = "time_since_join" THEN FALSE
    ELSE r[col] = NaT

\* rows of sales_cube_prep.csv (usecols of line 52); amounts in cents
SalesCubeRows ==
    {[sales_id |-> 1, customer_id |-> 10, product_id |-> 5, sales_amount |-> 4250, city |-> "Lyon"],
     [sales_id |-> 2, customer_id |-> 20, product_id |-> 5, sales_amount |-> 4250, city |-> "Lyon"],
     [sales_id |-> 3, customer_id |-> 10, product_id |-> 6, sales_amount |-> 2500, city |-> "Paris"]}

\* rows of customer_cube_prep.csv (usecols of line 55): two customers who joined in the
\* same year, a join date after `today`, the empty join_date scrub_customers.py writes for
\* a date it could not parse, and a join_date that is no calendar day
CustomerCubeRows ==
    {[customer_id |-> 10, join_date |-> <<2023, 1, 1>>],
     [customer_id |-> 20, join_date |-> <<2023, 6, 15>>],
     [customer_id |-> 10, join_date |-> <<2025, 1, 2>>],
     [customer_id |-> 20, join_date |-> NaT],
     [customer_id |-> 10, join_date |-> <<2023, 2, 30>>]}

\* rows of products_cube_prep.csv (usecols of line 57)
ProductCubeRows ==
    {[product_id |-> 5, category |-> "Books"],
     [product_id |-> 6, category |-> "Toys"]}

\* the instants pd.Timestamp.now() is taken at: a midnight and a noon
Todays == {<<2025, 1, 1, 0>>, <<2025, 1, 1, 12>>}

RECURSIVE Flatten(_)
Flatten(ss) == IF ss = <<>> THEN <<>> ELSE Head(ss) \o Flatten(Tail(ss))

RECURSIVE SumSeq(_)
SumSeq(ns) == IF ns = <<>> THEN 0 ELSE Head(ns) + SumSeq(Tail(ns))

\* the right-hand columns of a left row that found no match (how='left')
NullRight(key) == IF key = "customer_id" THEN [join_date |-> NaT] ELSE [category |-> NaN]

merge_left(left, right, key) ==
    Flatten([i \in 1..Len(left) |->
        LET hits == SelectSeq(right, LAMBDA r : r[key] = left[i][key])
        IN  IF hits = <<>> THEN <<left[i] @@ NullRight(key)>>
            ELSE [j \in 1..Len(hits) |-> left[i] @@ hits[j]]])

\* a merge that pairs each left row with its first match only
merge_first(left, right, key) ==
    Flatten([i \in 1..Len(left) |->
        LET hits == SelectSeq(right, LAMBDA r : r[key] = left[i][key])
        IN  IF hits = <<>> THEN <<>> ELSE <<left[i] @@ hits[1]>>])

\* DataFrame.merge(right, on=key), how='inner': for each left row, in left order, one row
\* per right row with the same key, in right order
merge(left, right, key) ==
    Flatten([i \in 1..Len(left) |->
        LET hits == SelectSeq(right, LAMBDA r : r[key] = left[i][key])
        IN  [j \in 1..Len(hits) |-> left[i] @@ hits[j]]])

\* a day count that takes every year for 365 days
DayNumberNoLeap(date) ==
    365 * date[1] + <<0, 31, 59, 90, 120, 151, 181, 212, 243, 273, 304, 334>>[date[2]] + date[3]

\* days from 1970-01-01 to the civil date <<y, m, d>> (proleptic Gregorian calendar)
DayNumber(date) ==
    LET y == IF date[2] <= 2 THEN date[1] - 1 ELSE date[1]
        era == y \div 400
        yoe == y - era * 400
        mp == IF date[2] > 2 THEN date[2] - 3 ELSE date[2] + 9
        doy == (153 * mp + 2) \div 5 + date[3] - 1
        doe == yoe * 365 + yoe \div 4 - yoe \div 100 + doy
    IN  era * 146097 + doe - 719468

IsLeap(y) == (y % 4 = 0 /\ y % 100 # 0) \/ y % 400 = 0

DaysInMonth(y, m) ==
    IF m = 2 THEN (IF IsLeap(y) THEN 29 ELSE 28)
    ELSE IF m \in {4, 6, 9, 11} THEN 30 ELSE 31

\* line 65: pd.to_datetime(cube_df['join_date']) parses every value or raises
\* (errors='raise' is the default); an empty value parses to NaT
Parses(date) ==
    \/ date = NaT
    \/ /\ Len(date) = 3
       /\ date[2] \in 1..12
       /\ date[3] \in 1..DaysInMonth(date[1], date[2])

\* a to_datetime that also raises on a frame without rows
to_datetime_raises_on_empty(df) ==
    df = <<>> \/ \E i \in 1..Len(df) : ~Parses(df[i].join_date)

\* line 65 raises when one value of the column does not parse
to_datetime_raises(df) == \E i \in 1..Len(df) : ~Parses(df[i].join_date)

\* hours from 1970-01-01T00:00 to the instant t = <<y, m, d, h>>
HourNumber(t) == 24 * DayNumber(t) + t[4]

TimedeltaDaysTruncated(t, join_date) ==
    LET h == HourNumber(t) - 24 * DayNumber(join_date)
    IN  IF h >= 0 THEN h \div 24 ELSE -((-h) \div 24)

\* Timedelta.days of today - join_date: whole days, rounded down (-12 hours is -1 day)
TimedeltaDays(t, join_date) == (HourNumber(t) - 24 * DayNumber(join_date)) \div 24

\* line 69: (today - join_date).dt.days; NaN for NaT
days_since_join(t, join_date) ==
    IF join_date = NaT THEN NaT ELSE <<TimedeltaDays(t, join_date)>>

\* the label with divisions that round toward zero
calculate_time_elapsed_truncating(t, join_date) ==
    IF join_date = NaT THEN [years |-> NaT, months |-> NaT]
    ELSE LET days == TimedeltaDays(t, join_date)
             years == IF days >= 0 THEN days \div 365 ELSE -((-days) \div 365)
             remaining_days == days - 365 * years
             months == IF remaining_days >= 0 THEN remaining_days \div 30
                       ELSE -((-remaining_days) \div 30)
         IN  [years |-> <<years>>, months |-> <<months>>]

\* the label counted in calendar years and months instead
calculate_time_elapsed_calendar(t, join_date) ==
    IF join_date = NaT THEN [years |-> NaT, months |-> NaT]
    ELSE LET whole == (12 * t[1] + t[2]) - (12 * join_date[1] + join_date[2])
                          - (IF t[3] < join_date[3] THEN 1 ELSE 0)
         IN  [years |-> <<whole \div 12>>, months |-> <<whole % 12>>]

\* lines 73-78: the label, kept as its two numbers; "nan year(s) and nan month(s)" for NaT
calculate_time_elapsed(t, join_date) ==
    IF join_date = NaT THEN [years |-> NaT, months |-> NaT]
    ELSE LET days == TimedeltaDays(t, join_date)
             years == days \div 365
             remaining_days == days % 365
             months == remaining_days \div 30
         IN  [years |-> <<years>>, months |-> <<months>>]

\* the year as strftime('%y') gives it
year_two_digits(join_date) == IF join_date = NaT THEN NaT ELSE <<join_date[1] % 100>>

\* line 84: join_date.dt.year
year(join_date) == IF join_date = NaT THEN NaT ELSE <<join_date[1]>>

\* lines 65-84 on one row of cube_df
Derived(t, r) ==
    r @@ [days_since_join |-> days_since_join(t, r.join_date),
          time_since_join |-> calculate_time_elapsed(t, r.join_date),
          year |-> year(r.join_date)]

\* the grouping columns of line 90
GroupKey(r) == [category |-> r.category, city |-> r.city, year |-> r.year, sales_amount |-> r.sales_amount]

\* groupby(..., dropna=False) would keep every key
KeepAllKeys(k) == FALSE
\* groupby's default dropna=True: a row with a missing value in a grouping column is in no group
DroppedKey(k) == IsNull(k, "category") \/ IsNull(k, "city") \/ IsNull(k, "year")

\* 'last': the last non-missing value of the column within the group
Last(rows, col) ==
    LET present == SelectSeq(rows, LAMBDA r : ~IsNull(r, col))
    IN  IF present = <<>> THEN NaT ELSE present[Len(present)][col]

\* 'first': the first non-missing value of the column within the group
First(rows, col) ==
    LET present == SelectSeq(rows, LAMBDA r : ~IsNull(r, col))
    IN  IF present = <<>> THEN NaT ELSE present[1][col]

\* the aggregates taken over the whole frame, as cube_df.agg without the groupby gives them
CubeRowOfFrame(k, rows) ==
    LET amounts == [i \in 1..Len(cube_df) |-> cube_df[i].sales_amount]
    IN  [category |-> k.category,
         city |-> k.city,
         year |-> k.year,
         sales_amount |-> k.sales_amount,
         sales_amount_sum |-> SumSeq(amounts),
         sales_amount_mean |-> SumSeq(amounts) \div Len(amounts),
         sales_amount_count |-> Len(amounts),
         days_since_join_first |-> First(rows, "days_since_join"),
         time_since_join_first |-> First(rows, "time_since_join")]

\* lines 89-103: one row per group, columns flattened
CubeRow(k, rows) ==
    LET amounts == [i \in 1..Len(rows) |-> rows[i].sales_amount]
    IN  [category |-> k.category,
         city |-> k.city,
         year |-> k.year,
         sales_amount |-> k.sales_amount,
         sales_amount_sum |-> SumSeq(amounts),
         sales_amount_mean |-> SumSeq(amounts) \div Len(amounts),
         sales_amount_count |-> Len(amounts),
         days_since_join_first |-> First(rows, "days_since_join"),
         time_since_join_first |-> First(rows, "time_since_join")]

groupby_agg(df) ==
    LET keys == {GroupKey(df[i]) : i \in 1..Len(df)} \ {k \in {GroupKey(df[i]) : i \in 1..Len(df)} : DroppedKey(k)}
    IN  {CubeRow(k, SelectSeq(df, LAMBDA r : GroupKey(r) = k)) : k \in keys}

(***************************************************************************)
(* float64 arithmetic of the sales_amount column                           *)
(***************************************************************************)
\* read_csv parses sales_amount into a float64 column and groupby's 'sum'
\* and 'mean' run on float64 (create_cube_p7.py:50-53, 95).  A float64 is
\* modelled as [sign, m, e] with value sign * m * 2^e and m a 53-bit
\* integer (2^52 <= m < 2^53); m is kept as a sequence of base-Limb
\* digits, least significant first, because it does not fit an integer of
\* the model checker.  Every operation rounds to nearest, ties to even.
\* Exponents stay far from the float64 limits for amounts of cents, so
\* subnormals, infinities and NaN are not modelled.
Limb == 32768

MantissaBits == 53

RECURSIVE Pow2(_)
Pow2(n) == IF n = 0 THEN 1 ELSE 2 * Pow2(n - 1)

RECURSIVE Bits(_)
Bits(n) == IF n = 0 THEN 0 ELSE 1 + Bits(n \div 2)

RECURSIVE BigTrim(_)
BigTrim(a) ==
    IF a # <<>> /\ a[Len(a)] = 0 THEN BigTrim(SubSeq(a, 1, Len(a) - 1)) ELSE a

BigBits(a) == IF a = <<>> THEN 0 ELSE 15 * (Len(a) - 1) + Bits(a[Len(a)])

BigOdd(a) == a # <<>> /\ a[1] % 2 = 1

RECURSIVE BigAddC(_, _, _)
BigAddC(a, b, c) ==
    IF a = <<>> /\ b = <<>>
    THEN IF c = 0 THEN <<>> ELSE <<c>>
    ELSE LET x == (IF a = <<>> THEN 0 ELSE a[1]) + (IF b = <<>> THEN 0 ELSE b[1]) + c
         IN  <<x % Limb>> \o BigAddC(IF a = <<>> THEN <<>> ELSE Tail(a),
                                     IF b = <<>> THEN <<>> ELSE Tail(b),
                                     x \div Limb)

BigAdd(a, b) == BigAddC(a, b, 0)

RECURSIVE BigSubB(_, _, _)
BigSubB(a, b, w) ==
    IF a = <<>>
    THEN <<>>
    ELSE LET x == a[1] - (IF b = <<>> THEN 0 ELSE b[1]) - w
         IN  <<x % Limb>> \o BigSubB(Tail(a),
                                     IF b = <<>> THEN <<>> ELSE Tail(b),
                                     IF x < 0 THEN 1 ELSE 0)

\* a - b for a >= b
BigSub(a, b) == BigTrim(BigSubB(a, b, 0))

RECURSIVE BigLess(_, _)
BigLess(a, b) ==
    IF Len(a) # Len(b) THEN Len(a) < Len(b)
    ELSE IF a = <<>> THEN FALSE
    ELSE IF a[Len(a)] # b[Len(b)] THEN a[Len(a)] < b[Len(b)]
    ELSE BigLess(SubSeq(a, 1, Len(a) - 1), SubSeq(b, 1, Len(b) - 1))

RECURSIVE BigMulC(_, _, _)
BigMulC(a, k, c) ==
    IF a = <<>>
    THEN IF c = 0 THEN <<>> ELSE <<c>>
    ELSE LET x == a[1] * k + c
         IN  <<x % Limb>> \o BigMulC(Tail(a), k, x \div Limb)

\* a * k for 0 <= k < Limb
BigMul(a, k) == BigTrim(BigMulC(a, k, 0))

RECURSIVE BigDivMod(_, _)
\* quotient and remainder of a by d, 0 < d < Limb
BigDivMod(a, d) ==
    IF a = <<>>
    THEN [q |-> <<>>, r |-> 0]
    ELSE LET hi == BigDivMod(Tail(a), d)
             x  == hi.r * Limb + a[1]
         IN  [q |-> <<x \div d>> \o hi.q, r |-> x % d]

RECURSIVE BigShl(_, _)
BigShl(a, s) ==
    IF a = <<>> \/ s = 0 THEN a
    ELSE IF s >= 15 THEN BigShl(<<0>> \o a, s - 15)
    ELSE BigMul(a, Pow2(s))

\* a + 1 when the discarded part is above half, or is half and a is odd
RoundHalfEven(a, guard, sticky) ==
    IF guard /\ (sticky \/ BigOdd(a)) THEN BigAdd(a, <<1>>) ELSE a

RECURSIVE BigShrRound(_, _, _, _)
\* a / 2^s rounded; guard is the last bit shifted out, sticky the OR of
\* the bits below it; up to 14 bits are shifted out at a time
BigShrRound(a, s, guard, sticky) ==
    IF s = 0
    THEN RoundHalfEven(a, guard, sticky)
    ELSE LET j    == IF s > 14 THEN 14 ELSE s
             half == Pow2(j - 1)
             d    == BigDivMod(a, 2 * half)
         IN  BigShrRound(BigTrim(d.q), s - j, d.r >= half,
                         sticky \/ guard \/ d.r % half # 0)

FZero == [sign |-> 0, m |-> <<>>, e |-> 0]

\* the float64 nearest to sign * (a + sticky-fraction) * 2^e
Float64(sign, a, e, sticky) ==
    IF a = <<>>
    THEN FZero
    ELSE LET n == BigBits(a)
         IN  IF n <= MantissaBits
             THEN [sign |-> sign, m |-> BigShl(a, MantissaBits - n),
                   e |-> e - (MantissaBits - n)]
             ELSE LET r == BigShrRound(a, n - MantissaBits, FALSE, sticky)
                  IN  IF BigBits(r) > MantissaBits
                      THEN [sign |-> sign, m |-> BigShl(<<1>>, MantissaBits - 1),
                            e |-> e + (n - MantissaBits) + 1]
                      ELSE [sign |-> sign, m |-> r, e |-> e + (n - MantissaBits)]

FNeg(x) == [x EXCEPT !.sign = 0 - @]

FAdd(x, y) ==
    IF x = FZero THEN y
    ELSE IF y = FZero THEN x
    ELSE LET e0 == IF x.e < y.e THEN x.e ELSE y.e
             ax == BigShl(x.m, x.e - e0)
             ay == BigShl(y.m, y.e - e0)
         IN  IF x.sign = y.sign THEN Float64(x.sign, BigAdd(ax, ay), e0, FALSE)
             ELSE IF ax = ay THEN FZero
             ELSE IF BigLess(ay, ax) THEN Float64(x.sign, BigSub(ax, ay), e0, FALSE)
             ELSE Float64(y.sign, BigSub(ay, ax), e0, FALSE)

FSub(x, y) == FAdd(x, FNeg(y))

\* x * n for an integer 0 < n < Limb
FMulInt(x, n) ==
    IF x = FZero THEN FZero ELSE Float64(x.sign, BigMul(x.m, n), x.e, FALSE)

\* x / n for an integer 0 < n < Limb
FDivInt(x, n) ==
    IF x = FZero
    THEN FZero
    ELSE LET d == BigDivMod(BigShl(x.m, 30), n)
         IN  Float64(x.sign, BigTrim(d.q), x.e - 30, d.r # 0)

\* the float64 read_csv parses from an amount written with two decimals
ParseCents(cents) ==
    LET d == BigDivMod(BigMul(BigShl(<<1>>, 60), cents), 100)
    IN  Float64(1, BigTrim(d.q), 0 - 60, d.r # 0)

\* one step of the compensated (Kahan) summation of pandas' group_sum
KahanAdd(acc, val) ==
    LET y == FSub(val, acc.comp)
        t == FAdd(acc.sumx, y)
    IN  [sumx |-> t, comp |-> FSub(FSub(t, acc.sumx), y)]

RECURSIVE KahanSum(_, _)
KahanSum(vals, acc) ==
    IF vals = <<>> THEN acc ELSE KahanSum(Tail(vals), KahanAdd(acc, Head(vals)))

\* pandas' group_sum
group_sum(vals) == KahanSum(vals, [sumx |-> FZero, comp |-> FZero]).sumx

\* the sum left undivided
group_mean_undivided(vals) == group_sum(vals)

\* pandas' group_mean: the compensated sum divided by the number of values
group_mean(vals) == FDivInt(group_sum(vals), Len(vals))

\* lines 89-103 on the float64 column: CubeRow with 'sum' and 'mean' as pandas computes
\* them, the amounts parsed from the text of the CSV; CubeRow above carries the amounts
\* in cents, which is the same wherever every amount and every sum is a float64
CubeRowFloat64(k, rows) ==
    LET amounts == [i \in 1..Len(rows) |-> ParseCents(rows[i].sales_amount)]
    IN  [category |-> k.category,
         city |-> k.city,
         year |-> k.year,
         sales_amount |-> ParseCents(k.sales_amount),
         sales_amount_sum |-> group_sum(amounts),
         sales_amount_mean |-> group_mean(amounts),
         sales_amount_count |-> Len(amounts),
         days_since_join_first |-> First(rows, "days_since_join"),
         time_since_join_first |-> First(rows, "time_since_join")]

groupby_agg_float64(df) ==
    LET keys == {GroupKey(df[i]) : i \in 1..Len(df)} \ {k \in {GroupKey(df[i]) : i \in 1..Len(df)} : DroppedKey(k)}
    IN  {CubeRowFloat64(k, SelectSeq(df, LAMBDA r : GroupKey(r) = k)) : k \in keys}

(***************************************************************************)
(* create_cube_p7.py: the script                                           *)
(***************************************************************************)
CubeTables(rows) == SeqsUpTo(rows, MaxCubeRows)

\* the columns the three read_csv calls ask for (usecols, lines 52, 55, 57)
SalesUsecols == {"product_id", "customer_id", "sales_id", "sales_amount", "city"}
CustomerUsecols == {"customer_id", "join_date"}
ProductUsecols == {"category", "product_id"}

\* a cube-prep CSV on disk: absent, or present with these header columns
NoCsv == [present |-> FALSE, columns |-> {}]
CsvWith(columns) == [present |-> TRUE, columns |-> columns]

\* each CSV is absent, complete, or lacks one join key column; a CSV the script never
\* gets to (an earlier read_csv raised) is no input of it and stands as complete
CsvsFor(usecols) ==
    {NoCsv, CsvWith(usecols)}
        \cup {CsvWith(usecols \ {k}) : k \in usecols \cap {"customer_id", "product_id"}}

CubeHeaders ==
    {h \in [sales : CsvsFor(SalesUsecols), customers : CsvsFor(CustomerUsecols),
            products : CsvsFor(ProductUsecols)] :
        /\ h.sales # CsvWith(SalesUsecols) =>
               h.customers = CsvWith(CustomerUsecols) /\ h.products = CsvWith(ProductUsecols)
        /\ h.customers # CsvWith(CustomerUsecols) => h.products = CsvWith(ProductUsecols)}

NoError == [type |-> "none", columns |-> {}]

\* read_csv without the usecols validation
NoMissingUsecols(columns, usecols) == {}
\* "Usecols do not match columns, columns expected but not found: [...]"
MissingUsecols(columns, usecols) == usecols \ columns

\* pd.read_csv(path, usecols=...): the exception it raises, if any
read_csv_error(csv, usecols) ==
    IF ~csv.present THEN [type |-> "FileNotFoundError", columns |-> {}]
    ELSE IF MissingUsecols(csv.columns, usecols) # {}
         THEN [type |-> "ValueError", columns |-> MissingUsecols(csv.columns, usecols)]
         ELSE NoError

\* data_p7/p7_cube.csv: absent, or written with these rows
NoCubeFile == [exists |-> FALSE, rows |-> {}]

CubeStart ==
    /\ cpc = "read"
    /\ sales = <<>>
    /\ customers = <<>>
    /\ products = <<>>
    /\ cube_df = <<>>
    /\ cube = {}
    /\ today = NaT
    /\ p7_cube = NoCubeFile
    /\ headers \in CubeHeaders
    /\ cerr = NoError

\* lines 50-57
CubeReadCsv ==
    /\ cpc = "read"
    /\ LET e1 == read_csv_error(headers.sales, SalesUsecols)
           e2 == read_csv_error(headers.customers, CustomerUsecols)
           e3 == read_csv_error(headers.products, ProductUsecols)
       IN  /\ IF e1 = NoError THEN sales' \in CubeTables(SalesCubeRows) ELSE UNCHANGED sales
           /\ IF e1 = NoError /\ e2 = NoError
              THEN customers' \in CubeTables(CustomerCubeRows) ELSE UNCHANGED customers
           /\ IF e1 = NoError /\ e2 = NoError /\ e3 = NoError
              THEN products' \in CubeTables(ProductCubeRows) ELSE UNCHANGED products
           /\ cerr' = IF e1 # NoError THEN e1 ELSE IF e2 # NoError THEN e2 ELSE e3
           /\ cpc' = IF cerr' = NoError THEN "merge" ELSE "failed"
    /\ UNCHANGED <<cube_df, cube, today, p7_cube, headers>>

\* line 61
CubeMerge ==
    /\ cpc = "merge"
    /\ cube_df' = merge(merge(sales, customers, "customer_id"), products, "product_id")
    /\ cpc' = "derive"
    /\ UNCHANGED <<sales, customers, products, cube, today, p7_cube, headers, cerr>>

\* lines 65-84; a ValueError of line 65 ends the script
CubeDerive ==
    /\ cpc = "derive"
    /\ IF ~to_datetime_raises(cube_df)
       THEN /\ today' \in Todays
            /\ cube_df' = [i \in 1..Len(cube_df) |-> Derived(today', cube_df[i])]
            /\ cpc' = "aggregate"
            /\ UNCHANGED cerr
       ELSE /\ cpc' = "failed"
            /\ cerr' = [type |-> "ValueError", columns |-> {"join_date"}]
            /\ UNCHANGED <<cube_df, today>>
    /\ UNCHANGED <<sales, customers, products, cube, p7_cube, headers>>

\* lines 89-103
CubeAggregate ==
    /\ cpc = "aggregate"
    /\ cube' = groupby_agg(cube_df)
    /\ cpc' = "save"
    /\ UNCHANGED <<sales, customers, products, cube_df, today, p7_cube, headers, cerr>>

\* lines 89-103 with sales_amount as the float64 column it is
CubeAggregateFloat64 ==
    /\ cpc = "aggregate"
    /\ cube' = groupby_agg_float64(cube_df)
    /\ cpc' = "save"
    /\ UNCHANGED <<sales, customers, products, cube_df, today, p7_cube, headers, cerr>>

\* the statement after which line 107 stands
SaveAfterDerive == "aggregate"
SaveAfter == "save"

\* lines 106-107
CubeSave ==
    /\ cpc = SaveAfter
    /\ p7_cube' = [exists |-> TRUE, rows |-> cube]
    /\ cpc' = "done"
    /\ UNCHANGED <<sales, customers, products, cube_df, cube, today, headers, cerr>>

\* the cubing script is not running
CubeIdle ==
    /\ cpc = "off"
    /\ sales = <<>>
    /\ customers = <<>>
    /\ products = <<>>
    /\ cube_df = <<>>
    /\ cube = {}
    /\ today = NaT
    /\ p7_cube = NoCubeFile
    /\ headers = [sales |-> CsvWith(SalesUsecols), customers |-> CsvWith(CustomerUsecols),
                  products |-> CsvWith(ProductUsecols)]
    /\ cerr = NoError

Init == LoaderInit /\ CubeIdle

Next ==
    \/ (\E keep \in BOOLEAN : StartLoad(keep)) /\ UNCHANGED cubeVars
    \/ Connect /\ UNCHANGED cubeVars
    \/ CreateSchema /\ UNCHANGED cubeVars
    \/ ReadCsv /\ UNCHANGED cubeVars
    \/ InsertCustomers /\ UNCHANGED cubeVars
    \/ InsertProducts /\ UNCHANGED cubeVars
    \/ InsertSales /\ UNCHANGED cubeVars
    \/ Commit /\ UNCHANGED cubeVars
    \/ Finally /\ UNCHANGED cubeVars

Spec == Init /\ [][Next]_vars

CubeInit == LoaderInit /\ CubeStart

CubeNext ==
    \/ CubeReadCsv /\ UNCHANGED loaderVars
    \/ CubeMerge /\ UNCHANGED loaderVars
    \/ CubeDerive /\ UNCHANGED loaderVars
    \/ CubeAggregate /\ UNCHANGED loaderVars
    \/ CubeSave /\ UNCHANGED loaderVars

CubeSpec == CubeInit /\ [][CubeNext]_vars

(***************************************************************************)
(* The derivations of lines 65-84 over a range of join dates               *)
(***************************************************************************)
\* years before and after the run explored
TenureYears == 3

\* every join_date text yyyy-mm-dd of the years around the run's, the days of the calendar
\* and the few that are none (02-30, 04-31, ...)
JoinDates == ((2025 - TenureYears)..(2025 + TenureYears - 1)) \X (1..12) \X (1..31)

\* the script at line 65 with one Fact row, of a customer who joined on one of JoinDates
TenureInit ==
    /\ LoaderInit
    /\ cpc = "derive"
    /\ headers = [sales |-> CsvWith(SalesUsecols), customers |-> CsvWith(CustomerUsecols),
                  products |-> CsvWith(ProductUsecols)]
    /\ cerr = NoError
    /\ sales = <<[sales_id |-> 1, customer_id |-> 10, product_id |-> 5,
                  sales_amount |-> 4250, city |-> "Lyon"]>>
    /\ \E date \in JoinDates : customers = <<[customer_id |-> 10, join_date |-> date]>>
    /\ products = <<[product_id |-> 5, category |-> "Books"]>>
    /\ cube_df = merge(merge(sales, customers, "customer_id"), products, "product_id")
    /\ cube = {}
    /\ today = NaT
    /\ p7_cube = NoCubeFile

TenureNext == CubeDerive /\ UNCHANGED loaderVars

TenureSpec == TenureInit /\ [][TenureNext]_vars

(***************************************************************************)
(* The aggregates of lines 89-99 over a range of amounts                   *)
(***************************************************************************)
\* the largest amount explored, in cents
MaxCents == 60

\* the largest number of sales in a group
MaxGroup == 3

\* the script at line 89: the Fact table of n sales of one amount by one customer of one
\* product, which is one group of the cube
AmountInit ==
    /\ LoaderInit
    /\ cpc = "aggregate"
    /\ headers = [sales |-> CsvWith(SalesUsecols), customers |-> CsvWith(CustomerUsecols),
                  products |-> CsvWith(ProductUsecols)]
    /\ cerr = NoError
    /\ \E cents \in 1..MaxCents, n \in 1..MaxGroup :
           sales = [i \in 1..n |-> [sales_id |-> i, customer_id |-> 10, product_id |-> 5,
                                    sales_amount |-> cents, city |-> "Lyon"]]
    /\ customers = <<[customer_id |-> 10, join_date |-> <<2023, 1, 1>>]>>
    /\ products = <<[product_id |-> 5, category |-> "Books"]>>
    /\ today = <<2025, 1, 1, 0>>
    /\ cube_df = LET df == merge(merge(sales, customers, "customer_id"), products, "product_id")
                 IN  [i \in 1..Len(df) |-> Derived(today, df[i])]
    /\ cube = {}
    /\ p7_cube = NoCubeFile

AmountNext == CubeAggregateFloat64 /\ UNCHANGED loaderVars

AmountSpec == AmountInit /\ [][AmountNext]_vars

(***************************************************************************)
(* Properties of the warehouse loader                                      *)
(***************************************************************************)
HasDuplicateKey(df, key) == \E i, j \in 1..Len(df) : i < j /\ df[i][key] = df[j][key]

\* the first row of df with key value k
FirstWithKey(df, key, k) ==
    df[CHOOSE i \in 1..Len(df) : df[i][key] = k /\ \A j \in 1..(i - 1) : df[j][key] # k]

\* one row per distinct key value of df: the first in input order
FirstPerKey(df, key) == {FirstWithKey(df, key, r[key]) : r \in Range(df)}

NoRows(d) == d.customer = {} /\ d.product = {} /\ d.sale = {}

\* every step of the run other than the ones under study went through: the three CSVs
\* were read and sqlite raised no I/O error
NoOtherFailure == files.read /\ files.sales.present /\ err # "OperationalError"

\* C1: a run of load_data_to_db ends either with everything committed (schema and the
\* three batches) or with none of its rows in the persisted store. (Stated for the runs
\* whose failure, if any, comes from the data: a missing CSV or a repeated primary key.)
C1_AllOrNothing ==
    (pc = "done" /\ err # "OperationalError") =>
        \/ /\ committed
           /\ db.schema
           /\ db.customer = FirstPerKey(customers_df.rows, "customer_id")
           /\ db.product = Range(products_df.rows)
           /\ db.sale = FirstPerKey(sales_df.rows, "sales_id")
        \/ /\ ~committed
           /\ NoRows(db)

\* C2: a second run on the same prepared CSVs ends with the store in the state the first
\* run left (same tables, same rows) and with the same outcome: it neither appends to nor
\* collides with the first run's rows.
C2_IdempotentRebuild ==
    (pc = "done" /\ prev.kept /\ err # "OperationalError") =>
        /\ db = prev.db
        /\ err = prev.err
        /\ files = prev.files

C2_Witness ==
    /\ pc = "done"
    /\ prev.kept
    /\ committed
    /\ Len(customers_df.rows) = 2
    /\ db.customer # {}
    /\ db.sale # {}

\* C3: duplicate primary keys inside the Customer batch or the Sale batch do not fail the
\* load: when nothing else fails (CSVs read, no I/O error, no repeated product_id) the run
\* commits, and customer and sale each hold exactly one row per distinct key of the batch,
\* the first one in input order.
C3_DedupKeepsFirst ==
    (/\ pc = "done"
     /\ NoOtherFailure
     /\ ~HasDuplicateKey(products_df.rows, "product_id")) =>
        /\ committed
        /\ err = "none"
        /\ db.customer = FirstPerKey(customers_df.rows, "customer_id")
        /\ db.sale = FirstPerKey(sales_df.rows, "sales_id")
        /\ Cardinality(db.customer) = Cardinality({r.customer_id : r \in Range(customers_df.rows)})
        /\ Cardinality(db.sale) = Cardinality({r.sales_id : r \in Range(sales_df.rows)})

C3_Witness ==
    /\ pc = "done"
    /\ committed
    /\ HasDuplicateKey(customers_df.rows, "customer_id")
    /\ HasDuplicateKey(sales_df.rows, "sales_id")
    /\ customers_df.rows[1] # customers_df.rows[2]
    /\ db.customer = {customers_df.rows[1]}
    /\ db.sale = {sales_df.rows[1]}

\* C8: the loader does not deduplicate the Products batch: a repeated product_id reaches
\* the product table's primary key, the run that got as far as insert_products ends with
\* an IntegrityError and no product row, and no run holding such a batch reports a commit.
C8_ProductCollisionAborts ==
    HasDuplicateKey(products_df.rows, "product_id") =>
        /\ ~committed
        /\ (pc = "done" /\ NoOtherFailure) => (err = "IntegrityError" /\ db.product = {} /\ db.sale = {})

C8_Witness ==
    /\ pc = "done"
    /\ HasDuplicateKey(products_df.rows, "product_id")
    /\ err = "IntegrityError"
    /\ ~committed

\* C9: after a successful run every row of the store comes from the batches this run
\* read; nothing an earlier run wrote survives.
C9_FullRebuild ==
    (pc = "done" /\ committed) =>
        /\ db.customer \subseteq Range(customers_df.rows)
        /\ db.product \subseteq Range(products_df.rows)
        /\ db.sale \subseteq Range(sales_df.rows)

C9_Witness ==
    /\ pc = "done"
    /\ committed
    /\ stale
    /\ db.customer # {}

\* C10: a run that opened the connection has closed it when it ends, whether it ends
\* normally or with an exception.
C10_ConnectionReleased ==
    pc = "done" =>
        /\ conn # "open"
        /\ db.schema => conn = "closed"

C10_Witness ==
    /\ pc = "done"
    /\ err = "IntegrityError"
    /\ conn = "closed"

\* C11: after a successful load every persisted Sale row's customer_id is the customer_id
\* of a persisted Customer row and its product_id the product_id of a persisted Product
\* row. (The FOREIGN KEY clauses of lines 80-81 are declared on a connection that never
\* issues PRAGMA foreign_keys = ON, so the INSERTs of to_sql are not checked against them.)
C11_ReferentialIntegrity ==
    (pc = "done" /\ err = "none" /\ committed) =>
        \A s \in db.sale :
            /\ \E c \in db.customer : c.customer_id = s.customer_id
            /\ \E q \in db.product : q.product_id = s.product_id

\* C23: when a prepared CSV is absent, reading it yields an empty table and the load run
\* goes on to its end (inserts, commit) instead of aborting.
C23_MissingInputContinues ==
    (pc = "done" /\ files.read
        /\ ~(files.customers.present /\ files.products.present /\ files.sales.present)) =>
        /\ err = "none"
        /\ committed
        /\ customers_df.assigned /\ products_df.assigned /\ sales_df.assigned

\* C24: when sqlite3.connect fails, the run ends with that failure: no store file, no
\* schema, no CSV read, no row inserted, no commit.
C24_ConnectFailureAborts ==
    (pc \in {"finally", "done"} /\ conn = "none") =>
        /\ err = "OperationalError"
        /\ db = NoDb
        /\ ~files.read
        /\ customers_df = NotRead /\ products_df = NotRead /\ sales_df = NotRead
        /\ ~committed

\* a run on a store that held rows: the old file is gone and the connect failed
C24_Witness ==
    /\ pc = "done"
    /\ conn = "none"
    /\ err = "OperationalError"
    /\ stale = FALSE
    /\ prev.kept
    /\ prev.db.customer # {}

PrimaryKeyOf(name) ==
    IF name = "customer" THEN "customer_id" ELSE IF name = "product" THEN "product_id" ELSE "sales_id"

\* C25: in every state of the store, during a run, after a successful run and after a
\* failed one, no table holds two rows with the same primary-key value, whatever the
\* batches were.
C25_PrimaryKeyUnique ==
    \A name \in {"customer", "product", "sale"} :
        \A r, t \in db[name] : r[PrimaryKeyOf(name)] = t[PrimaryKeyOf(name)] => r = t

\* a products batch with a repeated product_id was turned down, the customers stay
C25_Witness ==
    /\ pc = "done"
    /\ err = "IntegrityError"
    /\ Cardinality(db.customer) = 2
    /\ db.product = {}
    /\ Len(products_df.rows) = 2
    /\ products_df.rows[1] # products_df.rows[2]

\* C28: the old warehouse is deleted before the new store is opened and before any CSV
\* is read; so after a run that fails later (missing CSV, repeated key, I/O error) the
\* store holds no row of the previous run: whatever it holds, this run inserted.
C28_FailedRunLosesPrior ==
    /\ pc = "connect" => (db = NoDb /\ conn = "none" /\ ~files.read)
    /\ (pc = "done" /\ err # "none") =>
           /\ db.customer \subseteq Range(customers_df.rows)
           /\ db.product \subseteq Range(products_df.rows)
           /\ db.sale \subseteq Range(sales_df.rows)
           /\ err = "FileNotFoundError" => (db.customer = {} /\ db.product = {} /\ db.sale = {})

\* the store held a customer that this run's CSV lacks; sales_prepared.csv is missing
C28_Witness ==
    /\ pc = "done"
    /\ err = "FileNotFoundError"
    /\ stale
    /\ db.schema
    /\ db.customer = {}

(***************************************************************************)
(* Properties of the cube builder                                          *)
(***************************************************************************)
\* the script ended in line 65
DeriveFailed == cpc = "failed" /\ cerr = [type |-> "ValueError", columns |-> {"join_date"}]
Merged == cpc \in {"derive", "aggregate", "save", "done"} \/ DeriveFailed
Aggregated == cpc \in {"save", "done"}

UniqueKey(df, key) == \A i, j \in 1..Len(df) : df[i][key] = df[j][key] => i = j

\* the sale's own columns of a Fact row
SaleColumns(r) ==
    [sales_id |-> r.sales_id, customer_id |-> r.customer_id, product_id |-> r.product_id,
     sales_amount |-> r.sales_amount, city |-> r.city]

\* the sale has a customer and a product to join with
Matched(r) ==
    /\ \E c \in Range(customers) : c.customer_id = r.customer_id
    /\ \E q \in Range(products) : q.product_id = r.product_id

RECURSIVE SumOfCounts(_)
SumOfCounts(rows) ==
    IF rows = {} THEN 0
    ELSE LET r == CHOOSE x \in rows : TRUE
         IN  r.sales_amount_count + SumOfCounts(rows \ {r})

FactsWithKey(k) == SelectSeq(cube_df, LAMBDA r : GroupKey(r) = k)

\* C4: every Fact row's customer_id occurs in Customers and its product_id in Products.
C4_JoinSoundness ==
    Merged =>
        \A i \in 1..Len(cube_df) :
            /\ \E c \in Range(customers) : c.customer_id = cube_df[i].customer_id
            /\ \E q \in Range(products) : q.product_id = cube_df[i].product_id

C4_Witness ==
    /\ cpc = "derive"
    /\ Len(sales) = 2
    /\ Len(cube_df) = 1
    /\ customers # <<>>
    /\ products # <<>>

\* C5: the sales_amount_count values of the CubeRows add up to the number of Fact rows,
\* Fact rows with a missing year (or other grouping value) included.
C5_CountConserved ==
    Aggregated => SumOfCounts(cube) = Len(cube_df)

\* C6: the cube partitions the Fact rows by (category, city, year, sales_amount): every
\* key occurring in a Fact row has exactly one CubeRow, no two CubeRows share a key, and
\* each CubeRow carries the count, the sum and the mean (sum / count) of its Fact rows.
C6_PartitionByKey ==
    Aggregated =>
        /\ \A i \in 1..Len(cube_df) :
               Cardinality({c \in cube : GroupKey(c) = GroupKey(cube_df[i])}) = 1
        /\ \A c, d \in cube : GroupKey(c) = GroupKey(d) => c = d
        /\ \A c \in cube :
               LET rows == FactsWithKey(GroupKey(c))
                   total == SumSeq([i \in 1..Len(rows) |-> rows[i].sales_amount])
               IN  /\ Len(rows) > 0
                   /\ c.sales_amount_count = Len(rows)
                   /\ c.sales_amount_sum = total
                   /\ c.sales_amount_mean * c.sales_amount_count = c.sales_amount_sum

\* C7: with customer_id unique in Customers and product_id unique in Products, the Fact
\* rows are, in order, the Sales rows that have both a customer and a product, one Fact
\* row each, carrying that customer's join_date and that product's category; the other
\* Sales rows yield nothing and the script goes on.
C7_OneFactPerMatchedSale ==
    (Merged /\ UniqueKey(customers, "customer_id") /\ UniqueKey(products, "product_id")) =>
        /\ [i \in 1..Len(cube_df) |-> SaleColumns(cube_df[i])] = SelectSeq(sales, Matched)
        /\ \A i \in 1..Len(cube_df) :
            /\ \E c \in Range(customers) :
                c.customer_id = cube_df[i].customer_id /\ c.join_date = cube_df[i].join_date
            /\ \E q \in Range(products) :
                q.product_id = cube_df[i].product_id /\ q.category = cube_df[i].category

C7_Witness ==
    /\ cpc = "derive"
    /\ UniqueKey(customers, "customer_id")
    /\ UniqueKey(products, "product_id")
    /\ Len(customers) = 2
    /\ Len(sales) = 2
    /\ Matched(sales[2])
    /\ ~Matched(sales[1])
    /\ Len(cube_df) = 1

Enriched == cpc \in {"aggregate", "save", "done"}

\* the calendar, day by day: position of a date in its year, and the days from date a
\* to date b counted year by year
DaysInYear(y) == IF IsLeap(y) THEN 366 ELSE 365

RECURSIVE DaysBeforeMonth(_, _)
DaysBeforeMonth(y, m) == IF m = 1 THEN 0 ELSE DaysBeforeMonth(y, m - 1) + DaysInMonth(y, m - 1)

DayOfYear(date) == DaysBeforeMonth(date[1], date[2]) + date[3]

RECURSIVE DaysBetween(_, _)
DaysBetween(a, b) ==
    IF a[1] = b[1] THEN DayOfYear(b) - DayOfYear(a)
    ELSE IF a[1] < b[1]
         THEN (DaysInYear(a[1]) - DayOfYear(a) + 1) + DaysBetween(<<a[1] + 1, 1, 1>>, b)
         ELSE -DaysBetween(b, a)

\* hours from the join date (at midnight) to the reference instant
HoursSinceJoin(r) == 24 * DaysBetween(r.join_date, today) + today[4]

\* C12: for a Fact row with a join date J, days_since_join is the whole number of days,
\* rounded down, of the reference instant minus J: d days with d <= R - J < d + 1; it is
\* negative when J is later than R, never clamped to 0.
C12_DaysSinceJoin ==
    Enriched =>
        \A i \in 1..Len(cube_df) :
            cube_df[i].join_date # NaT =>
                LET d == cube_df[i].days_since_join[1]
                    h == HoursSinceJoin(cube_df[i])
                IN  /\ Len(cube_df[i].days_since_join) = 1
                    /\ 24 * d <= h
                    /\ h < 24 * (d + 1)
                    /\ (h < 0 => d < 0)

\* a customer who joins tomorrow, seen at noon: 12 hours to go, -1 day
C12_Witness ==
    /\ Enriched
    /\ today = <<2025, 1, 1, 12>>
    /\ \E i \in 1..Len(cube_df) :
           cube_df[i].join_date = <<2025, 1, 2>> /\ cube_df[i].days_since_join = <<-1>>
    /\ \E i \in 1..Len(cube_df) :
           cube_df[i].join_date = <<2023, 6, 15>> /\ cube_df[i].days_since_join[1] > 0

\* C13: for a Fact row with a join date, time_since_join reads "<y> year(s) and <m>
\* month(s)" with y = d div 365 and m = (d mod 365) div 30, d being the days_since_join
\* of the same row (one reference instant serves both columns); the days left over are
\* dropped. A row without a join date has neither number.
C13_TimeSinceJoin ==
    Enriched =>
        \A i \in 1..Len(cube_df) :
            IF cube_df[i].join_date = NaT
            THEN /\ cube_df[i].days_since_join = NaT
                 /\ cube_df[i].time_since_join = [years |-> NaT, months |-> NaT]
            ELSE LET d == cube_df[i].days_since_join[1]
                 IN  cube_df[i].time_since_join =
                         [years |-> <<d \div 365>>, months |-> <<(d % 365) \div 30>>]

\* 566 days are 1 year and 6 months (21 days dropped); -1 day is -1 year and 12 months
C13_Witness ==
    /\ Enriched
    /\ \E i \in 1..Len(cube_df) :
           /\ cube_df[i].days_since_join = <<566>>
           /\ cube_df[i].time_since_join = [years |-> <<1>>, months |-> <<6>>]
    /\ \E i \in 1..Len(cube_df) :
           /\ cube_df[i].days_since_join = <<-1>>
           /\ cube_df[i].time_since_join = [years |-> <<-1>>, months |-> <<12>>]

\* C14: the year of a Fact row is the four-digit calendar year of the join_date of the
\* Customers row it was joined with (none for a row without a join date); no sale date
\* enters it, so Fact rows of the same Customers row, and with customer_id unique in
\* Customers all Fact rows of the same customer, have the same year whatever sale they
\* come from.
C14_YearOfJoinDate ==
    Enriched =>
        /\ \A i \in 1..Len(cube_df) :
               \E c \in Range(customers) :
                   /\ c.customer_id = cube_df[i].customer_id
                   /\ c.join_date = cube_df[i].join_date
                   /\ cube_df[i].year = (IF c.join_date = NaT THEN NaT ELSE <<c.join_date[1]>>)
        /\ \A i, j \in 1..Len(cube_df) :
               (/\ cube_df[i].customer_id = cube_df[j].customer_id
                /\ \/ cube_df[i].join_date = cube_df[j].join_date
                   \/ UniqueKey(customers, "customer_id"))
               => cube_df[i].year = cube_df[j].year

\* two different sales of customer 10, who joined in 2023, seen in 2025
C14_Witness ==
    /\ Enriched
    /\ today[1] = 2025
    /\ UniqueKey(customers, "customer_id")
    /\ Len(cube_df) = 2
    /\ cube_df[1].sales_id # cube_df[2].sales_id
    /\ cube_df[1].customer_id = cube_df[2].customer_id
    /\ cube_df[1].year = <<2023>>
    /\ cube_df[2].year = <<2023>>

\* C15: a join_date that cannot be parsed does not make the cube builder fail; the Fact
\* row is kept with days_since_join, time_since_join and year missing, and it is not
\* dropped from the cube for that reason (its key still has a CubeRow).
C15_ParseFailureRecovered ==
    /\ ~DeriveFailed
    /\ Enriched =>
           \A i \in 1..Len(cube_df) :
               cube_df[i].join_date = NaT =>
                   /\ cube_df[i].days_since_join = NaT
                   /\ cube_df[i].time_since_join = [years |-> NaT, months |-> NaT]
                   /\ cube_df[i].year = NaT
    /\ Aggregated =>
           \A i \in 1..Len(cube_df) :
               cube_df[i].join_date = NaT =>
                   \E c \in cube : GroupKey(c) = GroupKey(cube_df[i])

\* C16: a partition with exactly one Fact row (its key without a missing component, so that
\* the groupby forms it) yields a CubeRow whose sales_amount_sum and sales_amount_mean are
\* that row's sales_amount and whose sales_amount_count is 1.
C16_SingletonPartition ==
    Aggregated =>
        \A i \in 1..Len(cube_df) :
            (Len(FactsWithKey(GroupKey(cube_df[i]))) = 1 /\ ~DroppedKey(GroupKey(cube_df[i]))) =>
                /\ \E c \in cube : GroupKey(c) = GroupKey(cube_df[i])
                /\ \A c \in cube :
                       GroupKey(c) = GroupKey(cube_df[i]) =>
                           /\ c.sales_amount_sum = cube_df[i].sales_amount
                           /\ c.sales_amount_mean = cube_df[i].sales_amount
                           /\ c.sales_amount_count = 1

\* two sales of different amounts, each alone in its partition
C16_Witness ==
    /\ Aggregated
    /\ Len(cube_df) = 2
    /\ cube_df[1].sales_amount # cube_df[2].sales_amount
    /\ Cardinality(cube) = 2

\* positions in Sales of the sales that have a Fact row in the partition of key k
SalesOfPartition(k) ==
    {j \in 1..Len(sales) :
        \E i \in 1..Len(cube_df) : SaleColumns(cube_df[i]) = sales[j] /\ GroupKey(cube_df[i]) = k}

\* C17: the days_since_join_first and time_since_join_first of a CubeRow are both those of
\* one Fact row, the first row of the partition in the order of the join output; with
\* unique dimension keys that is the Fact row of the partition's earliest sale in the
\* order of the Sales input.
C17_RepresentativeIsFirst ==
    Aggregated =>
        \A c \in cube :
            LET rows == FactsWithKey(GroupKey(c))
                js == SalesOfPartition(GroupKey(c))
            IN  /\ c.days_since_join_first = rows[1].days_since_join
                /\ c.time_since_join_first = rows[1].time_since_join
                /\ (UniqueKey(customers, "customer_id") /\ UniqueKey(products, "product_id")) =>
                       SaleColumns(rows[1]) = sales[CHOOSE j \in js : \A l \in js : j <= l]

\* a partition of two customers who joined in the same year on different days
C17_Witness ==
    /\ Aggregated
    /\ UniqueKey(customers, "customer_id")
    /\ \E c \in cube :
           LET rows == FactsWithKey(GroupKey(c))
           IN  /\ Len(rows) = 2
               /\ rows[1].days_since_join # rows[2].days_since_join
               /\ rows[1].time_since_join # rows[2].time_since_join
               /\ c.days_since_join_first = rows[1].days_since_join

\* the cube the script computes from the Sales rows s and this run's other inputs
CubeOf(s) ==
    LET joined == merge(merge(s, customers, "customer_id"), products, "product_id")
    IN  groupby_agg([i \in 1..Len(joined) |-> Derived(today, joined[i])])

Reorderings(n) == {f \in [1..n -> 1..n] : \A a, b \in 1..n : f[a] = f[b] => a = b}

\* C18: the Sales rows taken in any other order give the same set of CubeRows, the same
\* days_since_join_first and time_since_join_first included.
C18_OrderIndependent ==
    Aggregated =>
        \A f \in Reorderings(Len(sales)) :
            CubeOf([i \in 1..Len(sales) |-> sales[f[i]]]) = cube

\* C19: p7_cube.csv is written only when the join, the derivations and the aggregation
\* have all completed, and then with the complete cube; a run that fails in one of them
\* ends with the cube output neither written nor modified.
C19_NoPartialCube ==
    /\ cpc # "done" => p7_cube = NoCubeFile
    /\ cpc = "done" => p7_cube = [exists |-> TRUE, rows |-> CubeOf(sales)]

\* the join gave two Fact rows, then line 65 raised
C19_Witness ==
    /\ DeriveFailed
    /\ Len(cube_df) = 2
    /\ \E i \in 1..Len(cube_df) : Parses(cube_df[i].join_date) /\ cube_df[i].join_date # NaT
    /\ p7_cube = NoCubeFile

\* the worked example: one sale of 42.50 in Lyon by customer 10, who joined on 2023-01-01,
\* of product 5, a book; the run takes place on 2025-01-01
ExampleInputs ==
    /\ sales = <<[sales_id |-> 1, customer_id |-> 10, product_id |-> 5,
                  sales_amount |-> 4250, city |-> "Lyon"]>>
    /\ customers = <<[customer_id |-> 10, join_date |-> <<2023, 1, 1>>]>>
    /\ products = <<[product_id |-> 5, category |-> "Books"]>>
    /\ today = <<2025, 1, 1, 0>>

\* the cube has exactly one row, of sum 42.50, mean 42.50 and count 1
ExampleCube ==
    /\ Cardinality(cube) = 1
    /\ \A c \in cube :
           /\ c.sales_amount_sum = 4250
           /\ c.sales_amount_mean = 4250
           /\ c.sales_amount_count = 1

\* C20 as stated: in the worked example the Fact row has days_since_join = 730 and
\* year = 2023, and the cube is one row with sum 42.50, mean 42.50, count 1.
C20_WorkedExample730 ==
    (Aggregated /\ ExampleInputs) =>
        /\ Len(cube_df) = 1
        /\ cube_df[1].days_since_join = <<730>>
        /\ cube_df[1].year = <<2023>>
        /\ ExampleCube

\* C20: in the worked example the Fact row has days_since_join = 731 (2024 has 366 days)
\* and year = 2023, and the cube is one row with sum 42.50, mean 42.50, count 1.
C20_WorkedExample ==
    (Aggregated /\ ExampleInputs) =>
        /\ Len(cube_df) = 1
        /\ cube_df[1].days_since_join = <<731>>
        /\ cube_df[1].year = <<2023>>
        /\ ExampleCube

C20_Witness ==
    /\ cpc = "done"
    /\ ExampleInputs
    /\ p7_cube.rows = cube
    /\ cube # {}

\* the join key columns a CSV is asked for and lacks
MissingKeys(csv, usecols) ==
    IF csv.present THEN (usecols \ csv.columns) \cap {"customer_id", "product_id"} ELSE {}

\* C21: when a CSV the script reads lacks a join key column (customer_id or product_id),
\* the script fails before any Fact row exists, with an error that names the missing
\* column (pandas raises ValueError "Usecols do not match columns" from read_csv).
C21_MissingKeyColumn ==
    \A f \in {"sales", "customers", "products"} :
        LET usecols == IF f = "sales" THEN SalesUsecols
                       ELSE IF f = "customers" THEN CustomerUsecols ELSE ProductUsecols
        IN  (MissingKeys(headers[f], usecols) # {} /\ cpc # "read") =>
                /\ cpc = "failed"
                /\ cube_df = <<>>
                /\ cube = {}
                /\ p7_cube = NoCubeFile
                /\ cerr.type = "ValueError"
                /\ MissingKeys(headers[f], usecols) \subseteq cerr.columns

\* Sales and Customers were read, then products_cube_prep.csv turned out to have no product_id
C21_Witness ==
    /\ cpc = "failed"
    /\ sales # <<>>
    /\ customers # <<>>
    /\ "product_id" \notin headers.products.columns
    /\ headers.products.present
    /\ cerr = [type |-> "ValueError", columns |-> {"product_id"}]

\* C22: a Sales input or a join result without rows is no error: the derivations and the
\* aggregation go through and the cube, and the file written, have zero CubeRows.
C22_EmptyInput ==
    /\ (Merged /\ sales = <<>>) => cube_df = <<>>
    /\ (Merged /\ cube_df = <<>>) =>
           /\ cpc # "failed"
           /\ cerr = NoError
           /\ cube = {}
           /\ cpc = "done" => p7_cube = [exists |-> TRUE, rows |-> {}]

\* customers and products are there, Sales has no rows, and the empty cube was written
C22_Witness ==
    /\ cpc = "done"
    /\ sales = <<>>
    /\ customers # <<>>
    /\ products # <<>>
    /\ p7_cube = [exists |-> TRUE, rows |-> {}]

\* C26: the Fact rows of one partition all have the same days_since_join and the same
\* time_since_join, so the CubeRow's 'first' values are those of every row of the partition.
C26_TenureConstantInPartition ==
    Aggregated =>
        /\ \A i, j \in 1..Len(cube_df) :
               GroupKey(cube_df[i]) = GroupKey(cube_df[j]) =>
                   /\ cube_df[i].days_since_join = cube_df[j].days_since_join
                   /\ cube_df[i].time_since_join = cube_df[j].time_since_join
        /\ \A c \in cube : \A i \in 1..Len(cube_df) :
               GroupKey(cube_df[i]) = GroupKey(c) =>
                   /\ c.days_since_join_first = cube_df[i].days_since_join
                   /\ c.time_since_join_first = cube_df[i].time_since_join

\* the (customer row, product row) pairs that Sales row j joins with
PairsOfSale(j) ==
    {ab \in (1..Len(customers)) \X (1..Len(products)) :
        /\ customers[ab[1]].customer_id = sales[j].customer_id
        /\ products[ab[2]].product_id = sales[j].product_id}

\* the key of the Fact row of Sales row j with the pair ab
KeyOfPair(j, ab) == GroupKey(Derived(today, (sales[j] @@ customers[ab[1]]) @@ products[ab[2]]))

\* C30: the join does not ask for unique keys: a Sales row yields one Fact row for every
\* Customers row with its customer_id and every Products row with its product_id (k rows
\* of one key give k Fact rows), so there can be more Fact rows than Sales rows, and a
\* CubeRow counts a sale once for each of its Fact rows in the partition.
C30_JoinMultiplies ==
    /\ Merged =>
           Len(cube_df) = SumSeq([j \in 1..Len(sales) |-> Cardinality(PairsOfSale(j))])
    /\ Aggregated =>
           \A c \in cube :
               c.sales_amount_count =
                   SumSeq([j \in 1..Len(sales) |->
                       Cardinality({ab \in PairsOfSale(j) : KeyOfPair(j, ab) = GroupKey(c)})])

\* one sale, product 5 listed twice: two Fact rows and a count of 2
C30_Witness ==
    /\ Aggregated
    /\ Len(sales) = 1
    /\ Len(products) = 2
    /\ products[1].product_id = products[2].product_id
    /\ Len(cube_df) = 2
    /\ \E c \in cube : c.sales_amount_count = 2

\* C29: for a day count d of either sign the label's numbers y = d div 365 and
\* m = (d mod 365) div 30 satisfy 0 <= m <= 12, m = 12 exactly when d mod 365 >= 360,
\* 365 y + 30 m <= d < 365 y + 30 m + 30, and y < 0 with m >= 0 when d < 0.
C29_LabelRange ==
    Enriched =>
        \A i \in 1..Len(cube_df) :
            cube_df[i].join_date # NaT =>
                LET d == cube_df[i].days_since_join[1]
                    y == cube_df[i].time_since_join.years[1]
                    m == cube_df[i].time_since_join.months[1]
                IN  /\ 0 <= m /\ m <= 12
                    /\ m = 12 <=> d % 365 >= 360
                    /\ 365 * y + 30 * m <= d
                    /\ d < 365 * y + 30 * m + 30
                    /\ d < 0 => (y < 0 /\ m >= 0)

\* -366 days are "-2 year(s) and 12 month(s)"
C29_Witness ==
    /\ Enriched
    /\ cube_df[1].days_since_join = <<-366>>
    /\ cube_df[1].time_since_join = [years |-> <<-2>>, months |-> <<12>>]

\* x and y differ by at most one unit in the last place of y
WithinOneUlp(x, y) ==
    LET d == FSub(x, y)
    IN  \/ d = FZero
        \/ d.e + MantissaBits <= y.e
        \/ d.m = BigShl(<<1>>, MantissaBits - 1) /\ d.e + MantissaBits - 1 <= y.e

====
